---------------------------- MODULE Spec2Model ----------------------------
(***************************************************************************)
(* Model of the image analysis pipeline of src/app.py (WhatsApp Vision     *)
(* API): analyze_colors, translate_to_french, detect_objects,              *)
(* generate_description, format_whatsapp_response and the /analyze         *)
(* handler analyze_image.                                                  *)
(*                                                                         *)
(* Text is modelled as a sequence of characters, each character a          *)
(* one-element TLA+ string.  The two accented characters of the source are *)
(* written with ASCII names: "a^" is U+00E2 (a circumflex) and "e'" is     *)
(* U+00E9 (e acute); each is ONE character of the text.                    *)
(***************************************************************************)
EXTENDS Integers, Sequences, FiniteSets, TLC

VARIABLES
    \* analyze_colors (src/app.py:158-186)
    pixels,        \* image_small.getdata(): the resized image, row-major
    scan_i,        \* number of pixels the for loop has consumed
    color_counts,  \* the dict, as its items in insertion order
    colors,        \* the returned list
    color_pc,      \* "scan" | "done" | "off"
    \* translate_to_french (src/app.py:188-223)
    text,          \* the argument
    result,        \* the returned string
    again,         \* the function applied to its own output
    tr_pc,         \* "call" | "done" | "twice" | "off"
    \* detect_objects, the parsing part (src/app.py:146-156)
    objects_text,  \* processor.decode(...)
    detected,      \* the returned list
    tag_pc,        \* "call" | "done" | "off"
    \* analyze_image, one request per worker thread (src/app.py:55-108)
    request,       \* what request.get_json() returns
    pc,            \* where the thread is in the handler
    image,         \* the decoded image
    description,   \* generate_description's local and result
    objects,       \* detect_objects' result
    img_colors,    \* analyze_colors' result
    stages,        \* the pipeline stages the request has entered, in order
    model_calls,   \* model.generate calls made for the request
    generate_args, \* the arguments of the request's latest model.generate call
    response       \* the (body, status) the handler returned

colorVars == <<pixels, scan_i, color_counts, colors, color_pc>>
trVars == <<text, result, again, tr_pc>>
tagVars == <<objects_text, detected, tag_pc>>
pipeVars == <<request, pc, image, description, objects, img_colors, stages,
              model_calls, generate_args, response>>
vars == <<colorVars, trVars, tagVars, pipeVars>>

\* The threads the server dispatches requests to.
Workers == {"w1", "w2"}

ColorsOff ==
    /\ pixels = <<>>
    /\ scan_i = 0
    /\ color_counts = <<>>
    /\ colors = <<>>
    /\ color_pc = "off"

TranslateOff ==
    /\ text = <<>>
    /\ result = <<>>
    /\ again = <<>>
    /\ tr_pc = "off"

TagsOff ==
    /\ objects_text = <<>>
    /\ detected = <<>>
    /\ tag_pc = "off"

PipelineOff ==
    /\ request = [w \in Workers |-> <<>>]
    /\ pc = [w \in Workers |-> "off"]
    /\ image = [w \in Workers |-> <<>>]
    /\ description = [w \in Workers |-> <<>>]
    /\ objects = [w \in Workers |-> <<>>]
    /\ img_colors = [w \in Workers |-> <<>>]
    /\ stages = [w \in Workers |-> <<>>]
    /\ model_calls = [w \in Workers |-> 0]
    /\ generate_args = [w \in Workers |-> <<>>]
    /\ response = [w \in Workers |-> <<>>]

-----------------------------------------------------------------------------
(* Bounds and program constants *)

MaxPixels == 4

WhiteMin == 200
BlackMax == 50
TopN == 3

Min(a, b) == IF a < b THEN a ELSE b

\* Every sequence over S of length 0..n.
BoundedSeq(S, n) == UNION {[1..k -> S] : k \in 0..n}

-----------------------------------------------------------------------------
(* analyze_colors *)

\* Channel values around every threshold the rule compares against.
Levels == {0, 1, 48, 49, 50, 51, 100, 199, 200, 201, 202, 254, 255}

\* One representative pixel per bucket, used for the multi-pixel images.
Palette == { <<255, 0, 0>>, <<0, 255, 0>>, <<0, 0, 255>>,
             <<255, 255, 255>>, <<0, 0, 0>>, <<100, 100, 100>> }

\* The if/elif chain with the white rule tried first (precedence slip).
classify_pixel_whitefirst(p) ==
    LET r == p[1]  g == p[2]  b == p[3] IN
    IF r > WhiteMin /\ g > WhiteMin /\ b > WhiteMin THEN "blanc"
    ELSE IF r > g /\ r > b THEN "rouge"
    ELSE IF g > r /\ g > b THEN "vert"
    ELSE IF b > r /\ b > g THEN "bleu"
    ELSE IF r < BlackMax /\ g < BlackMax /\ b < BlackMax THEN "noir"
    ELSE "mixte"

\* The if/elif chain of the loop body.
classify_pixel(p) ==
    LET r == p[1]  g == p[2]  b == p[3] IN
    IF r > g /\ r > b THEN "rouge"
    ELSE IF g > r /\ g > b THEN "vert"
    ELSE IF b > r /\ b > g THEN "bleu"
    ELSE IF r > WhiteMin /\ g > WhiteMin /\ b > WhiteMin THEN "blanc"
    ELSE IF r < BlackMax /\ g < BlackMax /\ b < BlackMax THEN "noir"
    ELSE "mixte"

\* color_counts[color] = color_counts.get(color, 0) + 1 on an insertion-ordered
\* dict: an existing key keeps its position, a new key goes last.
dict_incr(d, k) ==
    IF \E i \in 1..Len(d) : d[i][1] = k
    THEN [i \in 1..Len(d) |-> IF d[i][1] = k THEN <<k, d[i][2] + 1>> ELSE d[i]]
    ELSE Append(d, <<k, 1>>)

\* Insert item x into acc (already ordered): after every item whose count is
\* >= x's, so equal counts keep their input order.
insert_desc(acc, x) ==
    LET n == Cardinality({i \in 1..Len(acc) : acc[i][2] >= x[2]}) IN
    SubSeq(acc, 1, n) \o <<x>> \o SubSeq(acc, n + 1, Len(acc))

\* An unstable variant: an item goes BEFORE the items of equal count.
insert_desc_unstable(acc, x) ==
    LET n == Cardinality({i \in 1..Len(acc) : acc[i][2] > x[2]}) IN
    SubSeq(acc, 1, n) \o <<x>> \o SubSeq(acc, n + 1, Len(acc))

RECURSIVE sorted_from(_, _, _)
sorted_from(items, i, acc) ==
    IF i > Len(items) THEN acc
    ELSE sorted_from(items, i + 1, insert_desc(acc, items[i]))

RECURSIVE sorted_from_unstable(_, _, _)
sorted_from_unstable(items, i, acc) ==
    IF i > Len(items) THEN acc
    ELSE sorted_from_unstable(items, i + 1, insert_desc_unstable(acc, items[i]))

\* sorted(..., key=count, reverse=True) with the equal counts reordered.
sorted_by_count_unstable(items) == sorted_from_unstable(items, 1, <<>>)

\* sorted(color_counts.items(), key=lambda x: x[1], reverse=True): a stable
\* sort, which reverse=True keeps stable.
sorted_by_count(items) == sorted_from(items, 1, <<>>)

\* [color[0] for color in sorted_colors[:3]]
top_colors(items) ==
    LET s == sorted_by_count(items) IN
    [i \in 1..Min(TopN, Len(s)) |-> s[i][1]]

ColorInit ==
    /\ pixels \in BoundedSeq(Palette, MaxPixels)
                    \cup {<<p>> : p \in Levels \X Levels \X Levels}
    /\ scan_i = 0
    /\ color_counts = <<>>
    /\ colors = <<>>
    /\ color_pc = "scan"
    /\ TranslateOff
    /\ TagsOff
    /\ PipelineOff

\* One iteration of `for pixel in pixels`.
ScanPixel ==
    /\ color_pc = "scan"
    /\ scan_i < Len(pixels)
    /\ scan_i' = scan_i + 1
    /\ color_counts' = dict_incr(color_counts, classify_pixel(pixels[scan_i + 1]))
    /\ UNCHANGED <<pixels, colors, color_pc>>
    /\ UNCHANGED <<trVars, tagVars, pipeVars>>

\* The loop is exhausted: sort, take the top three, return.
ReturnColors ==
    /\ color_pc = "scan"
    /\ scan_i = Len(pixels)
    /\ colors' = top_colors(color_counts)
    /\ color_pc' = "done"
    /\ UNCHANGED <<pixels, scan_i, color_counts>>
    /\ UNCHANGED <<trVars, tagVars, pipeVars>>

ColorNext == ScanPixel \/ ReturnColors

SpecColors == ColorInit /\ [][ColorNext]_vars

-----------------------------------------------------------------------------
(* Strings: str.lower, str.capitalize, `in`, str.replace *)

MaxWords == 3
MaxTagWords == 3

Lowercase == <<"a", "b", "c", "d", "e", "f", "g", "h", "i", "j", "k", "l", "m",
               "n", "o", "p", "q", "r", "s", "t", "u", "v", "w", "x", "y", "z",
               "a^", "e'">>
Uppercase == <<"A", "B", "C", "D", "E", "F", "G", "H", "I", "J", "K", "L", "M",
               "N", "O", "P", "Q", "R", "S", "T", "U", "V", "W", "X", "Y", "Z",
               "A^", "E'">>

lower_char(c) ==
    IF \E i \in 1..Len(Uppercase) : Uppercase[i] = c
    THEN Lowercase[CHOOSE i \in 1..Len(Uppercase) : Uppercase[i] = c]
    ELSE c

upper_char(c) ==
    IF \E i \in 1..Len(Lowercase) : Lowercase[i] = c
    THEN Uppercase[CHOOSE i \in 1..Len(Lowercase) : Lowercase[i] = c]
    ELSE c

\* str.lower()
lower(s) == [i \in 1..Len(s) |-> lower_char(s[i])]

\* A capitalize() that leaves the first character alone.
capitalize_nofirst(s) == lower(s)

\* str.capitalize(): first character upper-cased, every other one lower-cased.
capitalize(s) ==
    IF s = <<>> THEN <<>> ELSE <<upper_char(s[1])>> \o lower(Tail(s))

\* s[i:].startswith(sub), i counted from 1.
starts_at(s, i, sub) ==
    /\ i + Len(sub) - 1 <= Len(s)
    /\ \A k \in 1..Len(sub) : s[i + k - 1] = sub[k]

\* sub in s
contains(s, sub) == \E i \in 1..(Len(s) - Len(sub) + 1) : starts_at(s, i, sub)

RECURSIVE replace_from(_, _, _, _)
replace_from(s, i, old, new) ==
    IF i > Len(s) THEN <<>>
    ELSE IF starts_at(s, i, old)
         THEN new \o replace_from(s, i + Len(old), old, new)
         ELSE <<s[i]>> \o replace_from(s, i + 1, old, new)

RECURSIVE replace_first_from(_, _, _, _)
replace_first_from(s, i, old, new) ==
    IF i > Len(s) THEN <<>>
    ELSE IF starts_at(s, i, old)
         THEN new \o SubSeq(s, i + Len(old), Len(s))
         ELSE <<s[i]>> \o replace_first_from(s, i + 1, old, new)

\* str.replace(old, new, 1): only the leftmost occurrence is replaced.
str_replace_first(s, old, new) == replace_first_from(s, 1, old, new)

\* str.replace(old, new) for a non-empty old: every occurrence, found left to
\* right, the search resuming after each occurrence replaced.
str_replace(s, old, new) == replace_from(s, 1, old, new)

\* s joined from the chunks ws with single spaces: " ".join(ws).
RECURSIVE join_words(_)
join_words(ws) ==
    IF ws = <<>> THEN <<>>
    ELSE IF Len(ws) = 1 THEN ws[1]
    ELSE ws[1] \o <<" ">> \o join_words(Tail(ws))

-----------------------------------------------------------------------------
(* translate_to_french *)

\* The dict literal, in insertion order (the order .items() iterates in).
translations == <<
    << <<"a", " ", "p", "h", "o", "t", "o", " ", "o", "f">>,
       <<"u", "n", "e", " ", "p", "h", "o", "t", "o", " ", "d", "e">> >>,
    << <<"a", "n", " ", "i", "m", "a", "g", "e", " ", "o", "f">>,
       <<"u", "n", "e", " ", "i", "m", "a", "g", "e", " ", "d", "e">> >>,
    << <<"p", "e", "r", "s", "o", "n">>,
       <<"p", "e", "r", "s", "o", "n", "n", "e">> >>,
    << <<"p", "e", "o", "p", "l", "e">>,
       <<"p", "e", "r", "s", "o", "n", "n", "e", "s">> >>,
    << <<"m", "a", "n">>,
       <<"h", "o", "m", "m", "e">> >>,
    << <<"w", "o", "m", "a", "n">>,
       <<"f", "e", "m", "m", "e">> >>,
    << <<"c", "a", "r">>,
       <<"v", "o", "i", "t", "u", "r", "e">> >>,
    << <<"d", "o", "g">>,
       <<"c", "h", "i", "e", "n">> >>,
    << <<"c", "a", "t">>,
       <<"c", "h", "a", "t">> >>,
    << <<"f", "o", "o", "d">>,
       <<"n", "o", "u", "r", "r", "i", "t", "u", "r", "e">> >>,
    << <<"b", "u", "i", "l", "d", "i", "n", "g">>,
       <<"b", "a^", "t", "i", "m", "e", "n", "t">> >>,
    << <<"s", "t", "r", "e", "e", "t">>,
       <<"r", "u", "e">> >>,
    << <<"t", "r", "e", "e">>,
       <<"a", "r", "b", "r", "e">> >>,
    << <<"s", "k", "y">>,
       <<"c", "i", "e", "l">> >>,
    << <<"w", "a", "t", "e", "r">>,
       <<"e", "a", "u">> >>,
    << <<"s", "i", "t", "t", "i", "n", "g">>,
       <<"a", "s", "s", "i", "s">> >>,
    << <<"s", "t", "a", "n", "d", "i", "n", "g">>,
       <<"d", "e", "b", "o", "u", "t">> >>,
    << <<"w", "a", "l", "k", "i", "n", "g">>,
       <<"m", "a", "r", "c", "h", "a", "n", "t">> >>,
    << <<"o", "n">>,
       <<"s", "u", "r">> >>,
    << <<"i", "n">>,
       <<"d", "a", "n", "s">> >>,
    << <<"w", "i", "t", "h">>,
       <<"a", "v", "e", "c">> >>,
    << <<"a", "n", "d">>,
       <<"e", "t">> >>,
    << <<"t", "h", "e">>,
       <<"l", "e", "/", "l", "a">> >>,
    << <<"a">>,
       <<"u", "n", "/", "u", "n", "e">> >>
>>

RECURSIVE apply_translations(_, _)
apply_translations(s, i) ==
    IF i > Len(translations) THEN s
    ELSE apply_translations(
             str_replace(s, translations[i][1], translations[i][2]), i + 1)

translate_to_french(t) == capitalize(apply_translations(lower(t), 1))

\* Captions the argument is assembled from.
TextChunks == {
    <<"a", " ", "p", "h", "o", "t", "o", " ", "o", "f">>,
    <<"a">>,
    <<"d", "o", "g">>,
    <<"p", "e", "r", "s", "o", "n">>,
    <<"B", "M", "X">>,
    <<"S", "k", "y">>,
    <<"b", "u", "s">>,
    <<"t", "h", "e">> }

Texts == {join_words(ws) : ws \in BoundedSeq(TextChunks, MaxWords)}

TranslateInit ==
    /\ text \in Texts
    /\ result = <<>>
    /\ again = <<>>
    /\ tr_pc = "call"
    /\ ColorsOff
    /\ TagsOff
    /\ PipelineOff

\* translate_to_french(text), the whole call.
Translate ==
    /\ tr_pc = "call"
    /\ result' = translate_to_french(text)
    /\ tr_pc' = "done"
    /\ UNCHANGED <<text, again>>
    /\ UNCHANGED <<colorVars, tagVars, pipeVars>>

\* translate_to_french applied to its own output.
TranslateAgain ==
    /\ tr_pc = "done"
    /\ again' = translate_to_french(result)
    /\ tr_pc' = "twice"
    /\ UNCHANGED <<text, result>>
    /\ UNCHANGED <<colorVars, tagVars, pipeVars>>

TranslateNext == Translate \/ TranslateAgain

SpecTranslate == TranslateInit /\ [][TranslateNext]_vars

-----------------------------------------------------------------------------
(* detect_objects: the parsing of the decoded answer *)

common_objects == <<
    <<"p", "e", "r", "s", "o", "n">>,
    <<"c", "a", "r">>,
    <<"a", "n", "i", "m", "a", "l">>,
    <<"f", "o", "o", "d">>,
    <<"b", "u", "i", "l", "d", "i", "n", "g">>,
    <<"n", "a", "t", "u", "r", "e">>,
    <<"o", "b", "j", "e", "c", "t">> >>

\* 'objet non identifi\'e'
objet_non_identifie == <<"o", "b", "j", "e", "t", " ", "n", "o", "n", " ", "i", "d", "e", "n", "t", "i", "f", "i", "e'">>

RECURSIVE detect_from(_, _, _)
detect_from(t, i, acc) ==
    IF i > Len(common_objects) THEN acc
    ELSE detect_from(t, i + 1,
             IF contains(lower(t), common_objects[i])
             THEN Append(acc, common_objects[i]) ELSE acc)

RECURSIVE detect_from_nolower(_, _, _)
detect_from_nolower(t, i, acc) ==
    IF i > Len(common_objects) THEN acc
    ELSE detect_from_nolower(t, i + 1,
             IF contains(t, common_objects[i])
             THEN Append(acc, common_objects[i]) ELSE acc)

\* The parsing with `obj in objects_text`, the .lower() forgotten.
parse_objects_nolower(t) ==
    LET d == detect_from_nolower(t, 1, <<>>) IN
    IF d # <<>> THEN d ELSE <<objet_non_identifie>>

\* Lines 149-156: the loop over common_objects and the fallback.
parse_objects(t) ==
    LET d == detect_from(t, 1, <<>>) IN
    IF d # <<>> THEN d ELSE <<objet_non_identifie>>

\* Decoded answers are assembled from these.
TagChunks == {
    <<"p", "e", "r", "s", "o", "n">>,
    <<"C", "a", "r">>,
    <<"a", "n", "i", "m", "a", "l">>,
    <<"s", "e", "a", "f", "o", "o", "d">>,
    <<"d", "o", "g">>,
    <<"o", "b", "j", "e", "c", "t", "s">>,
    <<"a">> }

TagTexts == {join_words(ws) : ws \in BoundedSeq(TagChunks, MaxTagWords)}

TagsInit ==
    /\ objects_text \in TagTexts
    /\ detected = <<>>
    /\ tag_pc = "call"
    /\ ColorsOff
    /\ TranslateOff
    /\ PipelineOff

ParseObjects ==
    /\ tag_pc = "call"
    /\ detected' = parse_objects(objects_text)
    /\ tag_pc' = "done"
    /\ UNCHANGED objects_text
    /\ UNCHANGED <<colorVars, trVars, pipeVars>>

TagsNext == ParseObjects

SpecTags == TagsInit /\ [][TagsNext]_vars

-----------------------------------------------------------------------------
(* Claims about analyze_colors *)

\* The label the code gives each bucket of the specification.
ColorBucket == [red |-> "rouge", green |-> "vert", blue |-> "bleu",
                white |-> "blanc", black |-> "noir", mixed |-> "mixte"]

Precedence == <<"red", "green", "blue", "white", "black", "mixed">>

RuleMatches(name, p) ==
    LET r == p[1]  g == p[2]  b == p[3] IN
    CASE name = "red" -> r > g /\ r > b
      [] name = "green" -> g > r /\ g > b
      [] name = "blue" -> b > r /\ b > g
      [] name = "white" -> r > 200 /\ g > 200 /\ b > 200
      [] name = "black" -> r < 50 /\ g < 50 /\ b < 50
      [] name = "mixed" -> TRUE

\* The buckets whose rule matches p with no earlier rule matching.
FirstMatches(p) ==
    {Precedence[i] : i \in {i \in 1..Len(Precedence) :
        /\ RuleMatches(Precedence[i], p)
        /\ \A j \in 1..(i - 1) : ~RuleMatches(Precedence[j], p)}}

\* The count the dict holds for a label, 0 when the label is no key.
Tallied(label) ==
    IF \E i \in 1..Len(color_counts) : color_counts[i][1] = label
    THEN color_counts[CHOOSE i \in 1..Len(color_counts) :
                          color_counts[i][1] = label][2]
    ELSE 0

NearWhiteRed(p) == p[1] > 200 /\ p[2] > 200 /\ p[3] > 200 /\ p[1] > p[2] /\ p[1] > p[3]

\* C1: every pixel scanned is tallied in exactly one of the six buckets, the
\* first of red, green, blue, white, black, mixed whose rule it matches; a
\* near-white pixel with a strictly dominant red channel is tallied as red and
\* not as white.  (The code labels the buckets rouge, vert, bleu, blanc, noir,
\* mixte.)
C1_FirstMatchClassification ==
    color_pc \in {"scan", "done"} =>
        /\ \A i \in 1..Len(color_counts) :
               \E name \in DOMAIN ColorBucket : color_counts[i][1] = ColorBucket[name]
        /\ \A k \in 1..scan_i : Cardinality(FirstMatches(pixels[k])) = 1
        /\ \A name \in DOMAIN ColorBucket :
               Tallied(ColorBucket[name])
                   = Cardinality({k \in 1..scan_i : FirstMatches(pixels[k]) = {name}})
        /\ \A k \in 1..scan_i :
               (NearWhiteRed(pixels[k]) /\ Len(pixels) = 1) =>
                   Tallied(ColorBucket.red) = 1 /\ Tallied(ColorBucket.white) = 0

\* A near-white pixel with a dominant red channel has been scanned and returned.
C1_Witness ==
    /\ color_pc = "done"
    /\ pixels = << <<202, 201, 201>> >>
    /\ colors = <<"rouge">>

\* Number of pixels of the image in bucket c, and the place of the first one.
Occ(c) == Cardinality({k \in 1..Len(pixels) : classify_pixel(pixels[k]) = c})
FirstAt(c) ==
    CHOOSE k \in 1..Len(pixels) :
        /\ classify_pixel(pixels[k]) = c
        /\ \A j \in 1..(k - 1) : classify_pixel(pixels[j]) # c
Populated == {classify_pixel(pixels[k]) : k \in 1..Len(pixels)}
Outranks(c, d) ==
    \/ Occ(c) > Occ(d)
    \/ Occ(c) = Occ(d) /\ FirstAt(c) < FirstAt(d)

\* C2: the returned list has at most 3 entries, as many as there are populated
\* buckets when these are fewer than 3; it holds only populated buckets, none
\* twice; it is in descending order of pixel count, equal counts in the order
\* the buckets were first met in the scan; no bucket left out outranks one
\* that was returned.
C2_TopThreeByCount ==
    color_pc = "done" =>
        /\ Len(colors) <= 3
        /\ Len(colors) = Min(3, Cardinality(Populated))
        /\ \A i \in 1..Len(colors) : colors[i] \in Populated
        /\ \A i, j \in 1..Len(colors) : i < j => colors[i] # colors[j]
        /\ \A i, j \in 1..Len(colors) : i < j => Outranks(colors[i], colors[j])
        /\ \A c \in Populated :
               (\A i \in 1..Len(colors) : colors[i] # c) =>
                   \A i \in 1..Len(colors) : Outranks(colors[i], c)

\* Four buckets populated with equal counts: the list is cut to three, in scan
\* order.
C2_Witness ==
    /\ color_pc = "done"
    /\ pixels = << <<0, 0, 0>>, <<0, 0, 255>>, <<255, 0, 0>>, <<0, 255, 0>> >>
    /\ colors = <<"noir", "bleu", "rouge">>

-----------------------------------------------------------------------------
(* Claims about translate_to_french *)

Occurs(s, sub) ==
    \E i \in 1..(Len(s) - Len(sub) + 1) : SubSeq(s, i, i + Len(sub) - 1) = sub

NoTablePhrase(s) == \A i \in 1..Len(translations) : ~Occurs(s, translations[i][1])

Translated == tr_pc \in {"done", "twice"}

\* C8 as stated: when no English phrase of the table occurs in the input
\* (compared without regard to case), the output is the input with at most its
\* first character changed.
C8_UnchangedButFirst ==
    (Translated /\ NoTablePhrase(lower(text))) =>
        /\ Len(result) = Len(text)
        /\ \A k \in 2..Len(text) : result[k] = text[k]

\* C8 amended: when no English phrase of the table occurs in the lower-cased
\* input, the output is the lower-cased input with its first character
\* upper-cased, and translating the output again returns it unchanged.
C8_LowerCapitalized ==
    (Translated /\ NoTablePhrase(lower(text))) =>
        /\ Len(result) = Len(text)
        /\ Len(text) > 0 => result[1] = upper_char(text[1])
        /\ \A k \in 2..Len(text) : result[k] = lower_char(text[k])
        /\ tr_pc = "twice" => again = result

C8_Witness ==
    /\ tr_pc = "twice"
    /\ text = <<"B", "M", "X", " ", "b", "u", "s">>
    /\ result = <<"B", "m", "x", " ", "b", "u", "s">>
    /\ again = result

\* The leftmost occurrence of old in s replaced, then the rest of s treated
\* the same way.
RECURSIVE ReplaceAll(_, _, _)
ReplaceAll(s, old, new) ==
    IF ~Occurs(s, old) THEN s
    ELSE LET at == CHOOSE i \in 1..Len(s) :
                      /\ SubSeq(s, i, i + Len(old) - 1) = old
                      /\ \A j \in 1..(i - 1) : SubSeq(s, j, j + Len(old) - 1) # old
         IN SubSeq(s, 1, at - 1) \o new
                \o ReplaceAll(SubSeq(s, at + Len(old), Len(s)), old, new)

\* The first k pairs of the table applied in table order.
RECURSIVE TableApplied(_, _)
TableApplied(s, k) ==
    IF k = 0 THEN s
    ELSE ReplaceAll(TableApplied(s, k - 1), translations[k][1], translations[k][2])

FirstUpper(s) == IF s = <<>> THEN s ELSE <<upper_char(s[1])>> \o Tail(s)

GoldenInput == <<"a", " ", "p", "h", "o", "t", "o", " ", "o", "f", " ", "a", " ", "d", "o", "g">>
GoldenOutput == <<"U", "n", "e", " ", "p", "h", "o", "t", "o", " ", "d", "e", " ", "u", "n", "/", "u", "n", "e", " ", "c", "h", "i", "e", "n">>

\* C9: the output is the lower-cased input with every pair of the table
\* applied in table order as a global, left-to-right, non-overlapping
\* replacement on the string as the earlier pairs left it, and the first
\* character then capitalized; "a photo of a dog" gives
\* "Une photo de un/une chien".
C9_SequentialSubstitution ==
    Translated =>
        /\ result = FirstUpper(TableApplied(lower(text), Len(translations)))
        /\ text = GoldenInput => result = GoldenOutput

C9_Witness ==
    /\ tr_pc = "done"
    /\ text = GoldenInput
    /\ result = GoldenOutput

-----------------------------------------------------------------------------
(* Claims about detect_objects *)

Matching == {k \in 1..Len(common_objects) :
                Occurs(lower(objects_text), common_objects[k])}

\* The entries of the vocabulary that occur in the lower-cased text, in
\* vocabulary order, or the one-element list <<sentinel>> when none occurs.
VocabularyOrSentinel(sentinel) ==
    tag_pc = "done" =>
        IF Matching = {}
        THEN detected = <<sentinel>>
        ELSE /\ Len(detected) = Cardinality(Matching)
             /\ \A i \in 1..Len(detected) :
                    \E k \in Matching : detected[i] = common_objects[k]
             /\ \A i, j \in 1..Len(detected) : i < j =>
                    \E k, l \in Matching :
                        /\ k < l
                        /\ detected[i] = common_objects[k]
                        /\ detected[j] = common_objects[l]

\* C3 as stated: the sentinel is the tag "unidentified object".
C3_EnglishSentinel ==
    VocabularyOrSentinel(<<"u", "n", "i", "d", "e", "n", "t", "i", "f", "i", "e", "d", " ", "o", "b", "j", "e", "c", "t">>)

\* C3 amended: the output is the non-empty list of the vocabulary entries
\* occurring in the lower-cased text, in vocabulary order, or else the
\* one-element list holding the tag "objet non identifie'" (e acute).
C3_VocabularyOrderOrSentinel == VocabularyOrSentinel(objet_non_identifie)

\* Both outcomes matter; the witness is the one with two matches returned in
\* vocabulary order, not match order, one of them found inside a longer word.
C3_Witness ==
    /\ tag_pc = "done"
    /\ objects_text = <<"s", "e", "a", "f", "o", "o", "d", " ", "C", "a", "r">>
    /\ detected = <<<<"c", "a", "r">>, <<"f", "o", "o", "d">>>>

C3_SentinelWitness ==
    /\ tag_pc = "done"
    /\ objects_text = <<"d", "o", "g">>
    /\ detected = <<objet_non_identifie>>

-----------------------------------------------------------------------------
(* analyze_image: the /analyze handler and the stages it calls *)

\* The lines 165-182 as a function of the whole pixel sequence.
RECURSIVE count_colors(_, _, _)
count_colors(px, i, d) ==
    IF i > Len(px) THEN d
    ELSE count_colors(px, i + 1, dict_incr(d, classify_pixel(px[i])))

analyze_colors(img) == top_colors(count_colors(img.small, 1, <<>>))

\* ', '.join(items)
RECURSIVE join_comma(_)
join_comma(items) ==
    IF items = <<>> THEN <<>>
    ELSE IF Len(items) = 1 THEN <<items[1]>>
    ELSE <<items[1], ", ">> \o join_comma(Tail(items))

\* The template, as its fields; the clock reading is the token "HH:MM".
format_whatsapp_response(d, objs, cols) ==
    [titre |-> "Analyse de votre image",
     description |-> d,
     elements |-> join_comma(objs),
     couleurs |-> join_comma(cols),
     heure |-> "HH:MM"]

\* The fixture image: its size, and the pixels image.resize((150, 150)) gives
\* (the resampling is PIL's; the model carries its outcome with the image).
TheImage ==
    [width |-> 640, height |-> 480,
     small |-> << <<255, 255, 255>>, <<202, 201, 201>>, <<10, 10, 10>>,
                  <<250, 10, 10>>, <<0, 0, 200>>, <<100, 100, 100>>,
                  <<0, 0, 0>> >>]

\* What the `image` field of a request can hold.
\*   b64_image      base64 of the bytes of a decodable image
\*   b64_garbage    base64 of bytes that are no image
\*   bad_padding    not base64: the padding is wrong
\*   stray_image    not base64: characters outside the alphabet, around the
\*                  encoding of a decodable image
\*   stray_garbage  the same around the encoding of bytes that are no image
ImageFields == {"b64_image", "b64_garbage", "bad_padding", "stray_image",
                "stray_garbage"}
InvalidBase64 == {"bad_padding", "stray_image", "stray_garbage"}
Undecodable == {"b64_garbage", "bad_padding", "stray_garbage"}

\* The optional keys, each absent or set to the value that is not its default.
OptionDicts ==
    {[k \in K |-> IF k = "language" THEN "en" ELSE "detailed"] :
        K \in SUBSET {"language", "detail_level"}}

\* request.get_json(): None for the body `null`, else the object.
Requests ==
    {[json |-> "null", data |-> <<>>]}
        \cup {[json |-> "object", data |-> o] : o \in OptionDicts}
        \cup {[json |-> "object", data |-> o @@ ("image" :> f)] :
                  o \in OptionDicts, f \in ImageFields}

\* dict.get(key, default)
get(data, key, default) == IF key \in DOMAIN data THEN data[key] ELSE default

\* The membership test with its result ignored: the handler goes on to
\* data['image'].
image_missing_unchecked(data) == FALSE

\* 'image' not in data
image_missing(data) == "image" \notin DOMAIN data

\* base64.b64decode(s) with validate left False: characters outside the
\* alphabet are discarded, wrong padding raises binascii.Error.
b64decode(f) ==
    CASE f = "b64_image" -> [ok |-> TRUE, bytes |-> "image_bytes"]
      [] f = "stray_image" -> [ok |-> TRUE, bytes |-> "image_bytes"]
      [] f = "b64_garbage" -> [ok |-> TRUE, bytes |-> "garbage_bytes"]
      [] f = "stray_garbage" -> [ok |-> TRUE, bytes |-> "garbage_bytes"]
      [] f = "bad_padding" -> [ok |-> FALSE, error |-> "binascii.Error: Incorrect padding"]

\* Image.open(io.BytesIO(image_data)).convert('RGB')
image_open(bytes) ==
    IF bytes = "image_bytes"
    THEN [ok |-> TRUE, image |-> TheImage]
    ELSE [ok |-> FALSE, error |-> "UnidentifiedImageError: cannot identify image file"]

\* Lines 69-70.
load_image(data) ==
    IF "image" \notin DOMAIN data
    THEN [ok |-> FALSE, error |-> "KeyError: 'image'"]
    ELSE LET d == b64decode(data["image"]) IN
         IF d.ok THEN image_open(d.bytes) ELSE d

\* Lines 63-66.
missing_image_response ==
    [status |-> 400, body |-> [success |-> FALSE, error |-> "Aucune image fournie"]]

\* An except clause that answers with what was computed so far.
error_response_partial(msg) ==
    [status |-> 500,
     body |-> [success |-> FALSE, error |-> msg, description |-> <<>>]]

\* Lines 103-108: the except clause.
error_response(msg) ==
    [status |-> 500, body |-> [success |-> FALSE, error |-> msg]]

\* Lines 86-101.
success_response(img, d, objs, cols) ==
    [status |-> 200,
     body |-> [success |-> TRUE,
               description |-> d,
               details |-> [objects |-> objs, colors |-> cols,
                            image_size |-> <<img.width, "x", img.height>>],
               timestamp |-> "now",
               whatsapp_message |-> format_whatsapp_response(d, objs, cols)]]

\* str(e) of an exception raised inside a stage.
raised_by(stage) == "raised by " \o stage

\* What processor.decode can return for the caption and for the answer to
\* "What objects are in this image?": the model is an external collaborator,
\* the empty string included.
CaptionTexts == {<<>>, <<"a", " ", "p", "h", "o", "t", "o", " ", "o", "f", " ", "a", " ", "d", "o", "g">>}
AnswerTexts == {<<"d", "o", "g">>, <<"s", "e", "a", "f", "o", "o", "d", " ", "C", "a", "r">>}

PipelineInit ==
    /\ request = [w \in Workers |-> <<>>]
    /\ pc = [w \in Workers |-> "idle"]
    /\ image = [w \in Workers |-> <<>>]
    /\ description = [w \in Workers |-> <<>>]
    /\ objects = [w \in Workers |-> <<>>]
    /\ img_colors = [w \in Workers |-> <<>>]
    /\ stages = [w \in Workers |-> <<>>]
    /\ model_calls = [w \in Workers |-> 0]
    /\ generate_args = [w \in Workers |-> <<>>]
    /\ response = [w \in Workers |-> <<>>]
    /\ ColorsOff
    /\ TranslateOff
    /\ TagsOff

\* return jsonify(...), status
Respond(w, r) ==
    /\ response' = [response EXCEPT ![w] = r]
    /\ pc' = [pc EXCEPT ![w] = "responded"]

\* A stage raises: the except clause of the handler answers.
Raise(w, stage) == Respond(w, error_response(raised_by(stage)))

\* Lines 59-74: the body is read, the image decoded.
Receive(w) ==
    /\ pc[w] = "idle"
    /\ \E req \in Requests :
        /\ request' = [request EXCEPT ![w] = req]
        /\ IF req.json = "null"
           THEN /\ Respond(w, error_response(
                       "TypeError: argument of type 'NoneType' is not iterable"))
                /\ UNCHANGED image
           ELSE IF image_missing(req.data)
           THEN /\ Respond(w, missing_image_response)
                /\ UNCHANGED image
           ELSE LET im == load_image(req.data) IN
                IF im.ok
                THEN /\ image' = [image EXCEPT ![w] = im.image]
                     /\ pc' = [pc EXCEPT ![w] = "caption_call"]
                     /\ UNCHANGED response
                ELSE /\ Respond(w, error_response(im.error))
                     /\ UNCHANGED image
    /\ UNCHANGED <<description, objects, img_colors, stages, model_calls,
                   generate_args>>
    /\ UNCHANGED <<colorVars, trVars, tagVars>>

language(w) == get(request[w].data, "language", "fr")
detail_level(w) == get(request[w].data, "detail_level", "normal")

\* generate_description up to the call of model.generate (lines 112-125): the
\* processor prepares the inputs, or raises.
CaptionBegin(w) ==
    /\ pc[w] = "caption_call"
    /\ stages' = [stages EXCEPT ![w] = Append(@, "CaptionGenerator")]
    /\ \/ /\ pc' = [pc EXCEPT ![w] = "in_caption"]
          /\ model_calls' = [model_calls EXCEPT ![w] = @ + 1]
          /\ generate_args' = [generate_args EXCEPT ![w] =
                IF detail_level(w) = "detailed"
                THEN [text |-> "a photography of", max_length |-> 100,
                      num_beams |-> 5]
                ELSE [text |-> "", max_length |-> 50, num_beams |-> 3]]
          /\ UNCHANGED response
       \/ /\ Raise(w, "CaptionGenerator")
          /\ UNCHANGED <<model_calls, generate_args>>
    /\ UNCHANGED <<request, image, description, objects, img_colors>>
    /\ UNCHANGED <<colorVars, trVars, tagVars>>

\* model.generate returns and the caption is decoded (line 127), or it raises.
CaptionEnd(w) ==
    /\ pc[w] = "in_caption"
    /\ \/ \E t \in CaptionTexts :
            /\ description' = [description EXCEPT ![w] = t]
            /\ pc' = [pc EXCEPT ![w] = "translate"]
            /\ UNCHANGED response
       \/ /\ Raise(w, "CaptionGenerator")
          /\ UNCHANGED description
    /\ UNCHANGED <<request, image, objects, img_colors, stages, model_calls,
                   generate_args>>
    /\ UNCHANGED <<colorVars, trVars, tagVars>>

\* Lines 130-135: the caption is translated when the language is 'fr'.
TranslateStage(w) ==
    /\ pc[w] = "translate"
    /\ IF language(w) = "fr"
       THEN /\ stages' = [stages EXCEPT ![w] = Append(@, "Translator")]
            /\ \/ /\ description' =
                        [description EXCEPT ![w] = translate_to_french(@)]
                  /\ pc' = [pc EXCEPT ![w] = "tags_call"]
                  /\ UNCHANGED response
               \/ /\ Raise(w, "Translator")
                  /\ UNCHANGED description
       ELSE /\ pc' = [pc EXCEPT ![w] = "tags_call"]
            /\ UNCHANGED <<description, stages, response>>
    /\ UNCHANGED <<request, image, objects, img_colors, model_calls,
                   generate_args>>
    /\ UNCHANGED <<colorVars, trVars, tagVars>>

\* detect_objects up to the call of model.generate (lines 143-145).
TagsBegin(w) ==
    /\ pc[w] = "tags_call"
    /\ stages' = [stages EXCEPT ![w] = Append(@, "TagExtractor")]
    /\ \/ /\ pc' = [pc EXCEPT ![w] = "in_tags"]
          /\ model_calls' = [model_calls EXCEPT ![w] = @ + 1]
          /\ generate_args' = [generate_args EXCEPT ![w] =
                [text |-> "What objects are in this image?", max_length |-> 30,
                 num_beams |-> 1]]
          /\ UNCHANGED response
       \/ /\ Raise(w, "TagExtractor")
          /\ UNCHANGED <<model_calls, generate_args>>
    /\ UNCHANGED <<request, image, description, objects, img_colors>>
    /\ UNCHANGED <<colorVars, trVars, tagVars>>

\* model.generate returns, the answer is decoded and parsed (lines 146-156).
TagsEnd(w) ==
    /\ pc[w] = "in_tags"
    /\ \/ \E t \in AnswerTexts :
            /\ objects' = [objects EXCEPT ![w] = parse_objects(t)]
            /\ pc' = [pc EXCEPT ![w] = "colors"]
            /\ UNCHANGED response
       \/ /\ Raise(w, "TagExtractor")
          /\ UNCHANGED objects
    /\ UNCHANGED <<request, image, description, img_colors, stages, model_calls,
                   generate_args>>
    /\ UNCHANGED <<colorVars, trVars, tagVars>>

\* Line 83: analyze_colors(image).
ColorsStage(w) ==
    /\ pc[w] = "colors"
    /\ stages' = [stages EXCEPT ![w] = Append(@, "ColorAnalyzer")]
    /\ \/ /\ img_colors' = [img_colors EXCEPT ![w] = analyze_colors(image[w])]
          /\ pc' = [pc EXCEPT ![w] = "format"]
          /\ UNCHANGED response
       \/ /\ Raise(w, "ColorAnalyzer")
          /\ UNCHANGED img_colors
    /\ UNCHANGED <<request, image, description, objects, model_calls,
                   generate_args>>
    /\ UNCHANGED <<colorVars, trVars, tagVars>>

\* Lines 86-101: the response is built, the message formatted, both returned.
FormatStage(w) ==
    /\ pc[w] = "format"
    /\ stages' = [stages EXCEPT ![w] = Append(@, "MessageFormatter")]
    /\ \/ Respond(w, success_response(image[w], description[w], objects[w],
                                      img_colors[w]))
       \/ Raise(w, "MessageFormatter")
    /\ UNCHANGED <<request, image, description, objects, img_colors, model_calls,
                   generate_args>>
    /\ UNCHANGED <<colorVars, trVars, tagVars>>

PipelineNext ==
    \E w \in Workers :
        \/ Receive(w)
        \/ CaptionBegin(w)
        \/ CaptionEnd(w)
        \/ TranslateStage(w)
        \/ TagsBegin(w)
        \/ TagsEnd(w)
        \/ ColorsStage(w)
        \/ FormatStage(w)

SpecPipeline == PipelineInit /\ [][PipelineNext]_vars

-----------------------------------------------------------------------------
(* Claims about analyze_image *)

Responded(w) == pc[w] = "responded"

StageNames == {"CaptionGenerator", "Translator", "TagExtractor",
               "ColorAnalyzer", "MessageFormatter"}

\* The stages of a complete run, in order; Translator only for 'fr'.
StageOrder(w) ==
    <<"CaptionGenerator">>
        \o (IF language(w) = "fr" THEN <<"Translator">> ELSE <<>>)
        \o <<"TagExtractor", "ColorAnalyzer", "MessageFormatter">>

IsPrefix(s, t) == Len(s) <= Len(t) /\ SubSeq(t, 1, Len(s)) = s

\* C4: a stage that raises ends the call: it is the last stage the request
\* entered, the stages before it are those of the fixed order, and the
\* response holds success = false and the error message and nothing else; a
\* success response is given only after every stage ran, in the order
\* CaptionGenerator, Translator (for 'fr'), TagExtractor, ColorAnalyzer,
\* MessageFormatter.
C4_AllOrNothing ==
    \A w \in Workers :
        /\ pc[w] \notin {"off", "idle"} => IsPrefix(stages[w], StageOrder(w))
        /\ Responded(w) =>
            /\ response[w].body.success =>
                  /\ stages[w] = StageOrder(w)
                  /\ response[w].status = 200
            /\ ~response[w].body.success =>
                  DOMAIN response[w].body = {"success", "error"}
            /\ \A st \in StageNames :
                  (~response[w].body.success
                       /\ response[w].body.error = raised_by(st)) =>
                      /\ stages[w] # <<>>
                      /\ stages[w][Len(stages[w])] = st
                      /\ IsPrefix(stages[w], StageOrder(w))

\* TagExtractor raised for a request in French: ColorAnalyzer and
\* MessageFormatter never ran and the failure response was given.
C4_Witness ==
    \E w \in Workers :
        /\ Responded(w)
        /\ response[w] = error_response(raised_by("TagExtractor"))
        /\ stages[w] = <<"CaptionGenerator", "Translator", "TagExtractor">>

MissingImage(w) ==
    /\ Responded(w)
    /\ request[w].json = "object"
    /\ "image" \notin DOMAIN request[w].data

ClientError(r) == r.status \in 400..499 /\ ~r.body.success

\* C5: a request object without the `image` field is answered with a client
\* error, success false, and model.generate is never called for it.
C5_MissingImageNoModelCall ==
    \A w \in Workers :
        MissingImage(w) =>
            /\ ClientError(response[w])
            /\ model_calls[w] = 0
            /\ stages[w] = <<>>

\* A request without the field was rejected while the other thread was
\* inside the model.
C5_Witness ==
    \E w, v \in Workers :
        /\ MissingImage(w)
        /\ response[w] = missing_image_response
        /\ pc[v] = "in_caption"

InvalidImage(w) ==
    /\ Responded(w)
    /\ request[w].json = "object"
    /\ "image" \in DOMAIN request[w].data
    /\ request[w].data["image"] \in InvalidBase64 \cup Undecodable

\* C6: a request whose `image` field is not valid base64, or decodes to bytes
\* that are no image, is answered with a client error before any call of the
\* model.
C6_InvalidImageIsClientError ==
    \A w \in Workers :
        InvalidImage(w) => ClientError(response[w]) /\ model_calls[w] = 0

InModel == {w \in Workers : pc[w] \in {"in_caption", "in_tags"}}

\* C7: no two calls of model.generate are in progress at the same time.
C7_ModelAccessSerialized == Cardinality(InModel) <= 1

\* C10: a success response never carries an empty description.
C10_DescriptionNeverEmpty ==
    \A w \in Workers :
        (Responded(w) /\ response[w].body.success) =>
            response[w].body.description # <<>>

=============================================================================
